---- MODULE Spec2Model ----
(***************************************************************************)
(* State-machine model of quest-api: the cookie/JWT auth guard, the axum   *)
(* handlers and the repositories (Postgres and in-memory) they drive.      *)
(* Every request is a small process: guard -> handler -> storage           *)
(* statements -> done.  A storage statement (one sqlx query, or one        *)
(* in-memory operation under its RwLock guard) is one atomic step.         *)
(***************************************************************************)
EXTENDS Integers, Sequences, FiniteSets, TLC

(***************************************************************************)
(* Bounds of the model                                                     *)
(***************************************************************************)
MaxUsers == 2
MaxEvents == 2
MaxTargets == 1
MaxQuests == 2
MaxChallenges == 2
GuardRequests == 2
UserRequests == 4
EventRequests == 4
AccountRequests == 4
CatalogRequests == 4
QuestRequests == 4
MaxInFlight == 2
RaceRequests == 3
MaxNow == 8
ClockStep == 8
MaxFaults == 1

(***************************************************************************)
(* Program constants                                                       *)
(***************************************************************************)
JWT_HOURS == 8
OK == 200
CREATED == 201
NO_CONTENT == 204
BAD_REQUEST == 400
UNAUTHORIZED == 401
FORBIDDEN == 403
NOT_FOUND == 404

\* enum Difficulty { Easy, Normal, Hard }
Easy == 0
Normal == 1
Hard == 2

SecretKey == "secret_key"
OtherKey == "other_key"

Slots == 1..MaxInFlight
UserIds == 1..MaxUsers
TargetIds == 1..MaxTargets

(***************************************************************************)
(* Finite maps (HashMap / table keyed by id)                               *)
(***************************************************************************)
Put(f, k, v) == [x \in (DOMAIN f) \cup {k} |-> IF x = k THEN v ELSE f[x]]

Remove(f, k) == [x \in (DOMAIN f) \ {k} |-> f[x]]

EmptyMap == [x \in {} |-> 0]

RECURSIVE SelectSeqBy(_, _)
\* rows of a table (a sequence) whose user_id is uid, in table order
SelectSeqBy(rows, uid) ==
    IF rows = <<>> THEN <<>>
    ELSE IF Head(rows).user_id = uid
         THEN <<Head(rows)>> \o SelectSeqBy(Tail(rows), uid)
         ELSE SelectSeqBy(Tail(rows), uid)

RECURSIVE DeleteSeqBy(_, _)
\* the table without the rows whose user_id is uid
DeleteSeqBy(rows, uid) ==
    IF rows = <<>> THEN <<>>
    ELSE IF Head(rows).user_id = uid
         THEN DeleteSeqBy(Tail(rows), uid)
         ELSE <<Head(rows)>> \o DeleteSeqBy(Tail(rows), uid)

TargetsOf(rows) == [i \in 1..Len(rows) |-> rows[i].target_id]

(***************************************************************************)
(* Token service                                                           *)
(***************************************************************************)
NoHeader == [kind |-> "NoHeader", user_id |-> 0, iat |-> 0, exp |-> 0, key |-> ""]
NoSessionToken == [kind |-> "NoSessionToken", user_id |-> 0, iat |-> 0, exp |-> 0, key |-> ""]
Malformed == [kind |-> "Malformed", user_id |-> 0, iat |-> 0, exp |-> 0, key |-> ""]

\* create_jwt(user_id, iat, exp, secret_key): the signed claims
create_jwt(user_id, iat, exp, secret_key) ==
    [kind |-> "Jwt", user_id |-> user_id, iat |-> iat, exp |-> exp, key |-> secret_key]

\* decode_jwt(token, secret_key) at time t: the claims, or a failure
decode_jwt(token, secret_key, t) ==
    IF token.kind # "Jwt" \/ token.key # secret_key
    THEN [ok |-> FALSE, err |-> "InvalidSignature", user_id |-> 0]
    ELSE IF ~(token.iat <= t /\ t < token.exp)
         THEN [ok |-> FALSE, err |-> "Expired", user_id |-> 0]
         ELSE [ok |-> TRUE, err |-> "", user_id |-> token.user_id]

\* the window register_user / login_user give a token issued at t
IssueToken(user_id, t, secret_key) == create_jwt(user_id, t, t + JWT_HOURS, secret_key)

(***************************************************************************)
(* State                                                                   *)
(*  backend         which repository implementation create_app was given   *)
(*                  for users, quests and challenges ("Db" | "Memory");    *)
(*                  the two event repositories exist for Postgres only     *)
(*  users           users table / UserDatas map: id -> row                 *)
(*  participations  user_participating_quests rows, in insertion order     *)
(*  completions     user_completed_challenges rows, in insertion order     *)
(*  quests          quests table / QuestDatas map: id -> row               *)
(*  challenges      challenges table / ChallengeDatas map: id -> row       *)
(*  now             Utc::now(), in hours                                   *)
(*  issued          the session tokens the server has signed               *)
(*  reqs            the requests in flight, one per slot                   *)
(*  last            the request that ended most recently, as it ended      *)
(*  posted          what the clients know: for each id a create response   *)
(*                  returned, the payload that was posted, until the       *)
(*                  entity is next mutated; and the saves answered 201     *)
(*                  (events); and for each quest the field values the      *)
(*                  acknowledged create and updates have written (written) *)
(***************************************************************************)
VARIABLES backend, users, participations, completions, quests, challenges,
          now, issued, reqs, last, started, faults, nextUserId, nextQuestId,
          nextChallengeId, posted

vars == <<backend, users, participations, completions, quests, challenges,
          now, issued, reqs, last, started, faults, nextUserId, nextQuestId,
          nextChallengeId, posted>>

userStores == <<users, participations, completions>>
questStores == <<quests, challenges, nextQuestId, nextChallengeId, posted>>

(***************************************************************************)
(* Requests and responses                                                  *)
(***************************************************************************)
NoBody == [kind |-> "none"]
NoPayload == [kind |-> "none"]
NoLocal == [id |-> 0, stmt |-> 0, row |-> NoBody, quests |-> <<>>, challenges |-> <<>>]
NoPre == [kind |-> "none"]
\* what the client remembers of the answer to its previous call
NoPrior == [again |-> FALSE, status |-> 0, body |-> NoBody, panicked |-> FALSE,
            pre |-> NoPre]

Idle ==
    [route |-> "idle", cookie |-> NoHeader, id |-> 0, uid |-> 0,
     payload |-> NoPayload, pc |-> "idle", ctx |-> 0, status |-> 0,
     body |-> NoBody, set_cookie |-> NoHeader, panicked |-> FALSE,
     fault |-> FALSE, runs |-> 0, calls |-> 0, at |-> 0, hres |-> NoBody,
     loc |-> NoLocal, pre |-> NoPre, prior |-> NoPrior, waited |-> FALSE]

\* UserEntity as serialised: no password field
UserEntity(row, participate_quest, complete_challenge) ==
    [kind |-> "user", id |-> row.id, username |-> row.username,
     email |-> row.email, participate_quest |-> participate_quest,
     complete_challenge |-> complete_challenge]

IdList(ids) == [kind |-> "ids", ids |-> ids]

\* routes behind from_fn(auth_middleware)
\* the event routes registered outside the auth layer
ProtectedRoutes_open ==
    {"find_user", "delete_user", "auth_user", "get_participated_quests",
     "get_completed_challenges"}

ProtectedRoutes ==
    {"find_user", "delete_user", "auth_user", "participate_quest",
     "complete_challenge", "get_participated_quests",
     "get_completed_challenges"}

\* the request ends with a response
Respond(r, status, body) ==
    [r EXCEPT !.pc = "done", !.status = status, !.body = body]

\* what the layer in front of the handler returns for the handler's response:
\* behind the middleware Ok(next.run(req).await), otherwise the response itself
Layered(route, hres) == hres

\* the handler returns (status, body)
Reply(r, status, body) ==
    LET hres == [kind |-> "response", status |-> status, body |-> body]
        res == Layered(r.route, hres)
    IN  Respond([r EXCEPT !.hres = hres], res.status, res.body)

\* the task serving the request panics: the connection closes, no response
Panic(r) == [r EXCEPT !.pc = "done", !.panicked = TRUE]

InFlight(r) == r.pc # "idle"
Responded(r) == r.pc = "done" /\ ~r.panicked

(***************************************************************************)
(* Storage faults: any sqlx call may fail (connection, constraint).        *)
(***************************************************************************)
FaultChoices == IF faults < MaxFaults THEN {FALSE, TRUE} ELSE {FALSE}

Fault(f) == faults' = IF f THEN faults + 1 ELSE faults

\* the request in slot s becomes r; a request that has ended leaves its slot
SetReq(s, r) ==
    /\ reqs' = [reqs EXCEPT ![s] = IF r.pc = "done" THEN Idle ELSE r]
    /\ last' = IF r.pc = "done" THEN r ELSE last

\* the columns of the two event tables, as the queries and FromRow structs name them
ColumnExists(table, column) ==
    \/ table = "user_completed_challenges" /\ column \in {"id", "user_id", "challenge_id"}
    \/ table = "user_participating_quests" /\ column \in {"id", "user_id", "quest_id"}

(***************************************************************************)
(* Auth guard                                                              *)
(***************************************************************************)
\* variant: a Cookie header without session_token falls through to the handler
auth_middleware_without_else(secret_key, cookie, t) ==
    IF cookie.kind = "NoHeader"
    THEN [next |-> FALSE, panic |-> FALSE, status |-> UNAUTHORIZED, user_id |-> 0]
    ELSE IF cookie.kind = "NoSessionToken"
    THEN [next |-> TRUE, panic |-> FALSE, status |-> 0, user_id |-> 0]
    ELSE LET decoded_token == decode_jwt(cookie, secret_key, t)
         IN  IF ~decoded_token.ok
             THEN [next |-> FALSE, panic |-> TRUE, status |-> 0, user_id |-> 0]
             ELSE [next |-> TRUE, panic |-> FALSE, status |-> 0,
                   user_id |-> decoded_token.user_id]

\* variant: the claims are read without validating the token
auth_middleware_without_validation(secret_key, cookie, t) ==
    IF cookie.kind \in {"NoHeader", "NoSessionToken"}
    THEN [next |-> FALSE, panic |-> FALSE, status |-> UNAUTHORIZED, user_id |-> 0]
    ELSE [next |-> TRUE, panic |-> FALSE, status |-> 0, user_id |-> cookie.user_id]

\* what the middleware does with the request: reject, panic, or run next
auth_middleware(secret_key, cookie, t) ==
    IF cookie.kind = "NoHeader"
    THEN [next |-> FALSE, panic |-> FALSE, status |-> UNAUTHORIZED, user_id |-> 0]
    ELSE IF cookie.kind = "NoSessionToken"
    THEN [next |-> FALSE, panic |-> FALSE, status |-> UNAUTHORIZED, user_id |-> 0]
    ELSE LET decoded_token == decode_jwt(cookie, secret_key, t)
         IN  IF ~decoded_token.ok
             THEN [next |-> FALSE, panic |-> TRUE, status |-> 0, user_id |-> 0]
             ELSE [next |-> TRUE, panic |-> FALSE, status |-> 0,
                   user_id |-> decoded_token.user_id]

Guard(s) ==
    /\ reqs[s].pc = "guard"
    /\ LET r == reqs[s]
           g == auth_middleware(SecretKey, r.cookie, now)
       IN  SetReq(s, IF g.panic THEN Panic([r EXCEPT !.at = now])
                     ELSE IF g.next
                     THEN [r EXCEPT !.pc = "handler", !.ctx = g.user_id, !.at = now]
                     ELSE Respond([r EXCEPT !.at = now], g.status, NoBody))
    /\ UNCHANGED <<backend, userStores, questStores, now, issued, started,
                   faults, nextUserId>>

(***************************************************************************)
(* QuestRepository and ChallengeRepository                                 *)
(***************************************************************************)
\* impl Display for Difficulty: write!(f, "{:?}", self)
to_string(difficulty) ==
    CASE difficulty = Easy -> "Easy"
      [] difficulty = Normal -> "Normal"
      [] difficulty = Hard -> "Hard"

\* impl TryFrom<String> for Difficulty
try_from(value) ==
    CASE value = "Easy" -> [ok |-> TRUE, value |-> Easy]
      [] value = "Normal" -> [ok |-> TRUE, value |-> Normal]
      [] value = "Hard" -> [ok |-> TRUE, value |-> Hard]
      [] OTHER -> [ok |-> FALSE, value |-> Easy]

\* Option<T>
None == [some |-> FALSE]
Some(v) == [some |-> TRUE, v |-> v]
unwrap_or(option, default) == IF option.some THEN option.v ELSE default

QuestFields ==
    {"title", "description", "price", "difficulty", "num_participate", "num_clear"}

\* variant: num_participate and num_clear bound in each other's place
QuestRowForDb_swapped_binds(id, q) ==
    [id |-> id, title |-> q.title, description |-> q.description,
     price |-> q.price, difficulty |-> to_string(q.difficulty),
     num_participate |-> q.num_clear, num_clear |-> q.num_participate]

\* the row of table quests that the insert / update statement writes:
\* the difficulty column holds difficulty.to_string()
QuestRowForDb(id, q) ==
    [id |-> id, title |-> q.title, description |-> q.description,
     price |-> q.price, difficulty |-> to_string(q.difficulty),
     num_participate |-> q.num_participate, num_clear |-> q.num_clear]

\* QuestFromRow: the row as sqlx decodes it, #[sqlx(try_from = "String")]
QuestFromRow(row) ==
    LET d == try_from(row.difficulty)
    IN  [ok |-> d.ok,
         row |-> [id |-> row.id, title |-> row.title,
                  description |-> row.description, price |-> row.price,
                  difficulty |-> d.value,
                  num_participate |-> row.num_participate,
                  num_clear |-> row.num_clear]]

\* QuestEntity { id, .., challenges }
QuestEntity(q, quest_challenges) ==
    [kind |-> "quest", id |-> q.id, title |-> q.title,
     description |-> q.description, price |-> q.price,
     difficulty |-> q.difficulty, num_participate |-> q.num_participate,
     num_clear |-> q.num_clear, challenges |-> quest_challenges]

\* QuestEntity::new: challenges: Vec::new()
QuestEntity_new(id, q) ==
    [kind |-> "quest", id |-> id, title |-> q.title,
     description |-> q.description, price |-> q.price,
     difficulty |-> q.difficulty, num_participate |-> q.num_participate,
     num_clear |-> q.num_clear, challenges |-> <<>>]

\* variant: num_clear falls back to the old num_participate
UpdatedQuest_stale_default(old_quest, payload) ==
    [id |-> old_quest.id,
     title |-> unwrap_or(payload.title, old_quest.title),
     description |-> unwrap_or(payload.description, old_quest.description),
     price |-> unwrap_or(payload.price, old_quest.price),
     difficulty |-> unwrap_or(payload.difficulty, old_quest.difficulty),
     num_participate |-> unwrap_or(payload.num_participate, old_quest.num_participate),
     num_clear |-> unwrap_or(payload.num_clear, old_quest.num_participate)]

\* the fields update writes: payload.f.unwrap_or(old_quest.f)
UpdatedQuest(old_quest, payload) ==
    [id |-> old_quest.id,
     title |-> unwrap_or(payload.title, old_quest.title),
     description |-> unwrap_or(payload.description, old_quest.description),
     price |-> unwrap_or(payload.price, old_quest.price),
     difficulty |-> unwrap_or(payload.difficulty, old_quest.difficulty),
     num_participate |-> unwrap_or(payload.num_participate, old_quest.num_participate),
     num_clear |-> unwrap_or(payload.num_clear, old_quest.num_clear)]

\* QuestRepositoryForMemory::create
QuestRepositoryForMemory_create(store, id, payload) ==
    LET quest == QuestEntity_new(id, payload)
    IN  [store |-> Put(store, id, quest), quest |-> quest]

\* QuestRepositoryForMemory::find: store.get(&id)...unwrap()
QuestRepositoryForMemory_find(store, id) ==
    IF id \in DOMAIN store
    THEN [ok |-> TRUE, panic |-> FALSE, quest |-> store[id]]
    ELSE [ok |-> FALSE, panic |-> TRUE, quest |-> NoBody]

\* QuestRepositoryForMemory::update: store.get(&id).context(NotFound)?, insert
QuestRepositoryForMemory_update(store, id, payload) ==
    IF id \notin DOMAIN store
    THEN [ok |-> FALSE, store |-> store, quest |-> NoBody]
    ELSE LET quest == QuestEntity(UpdatedQuest(store[id], payload),
                                  store[id].challenges)
         IN  [ok |-> TRUE, store |-> Put(store, id, quest), quest |-> quest]

RECURSIVE SelectByQuestId(_, _)
\* select * from challenges where quest_id = $1
SelectByQuestId(rows, quest_id) ==
    IF rows = <<>> THEN <<>>
    ELSE IF Head(rows).quest_id = quest_id
         THEN <<Head(rows)>> \o SelectByQuestId(Tail(rows), quest_id)
         ELSE SelectByQuestId(Tail(rows), quest_id)

RECURSIVE SelectById(_, _)
\* select * from challenges where id = $1
SelectById(rows, id) ==
    IF rows = <<>> THEN <<>>
    ELSE IF Head(rows).id = id
         THEN <<Head(rows)>> \o SelectById(Tail(rows), id)
         ELSE SelectById(Tail(rows), id)

\* Challenge::new / the row of table challenges
Challenge(id, payload) ==
    [kind |-> "challenge", id |-> id, name |-> payload.name,
     description |-> payload.description, quest_id |-> payload.quest_id,
     latitude |-> payload.latitude, longitude |-> payload.longitude]

\* ChallengeRepository::find: fetch_one (Db), store.get(&id)...unwrap() (Memory)
ChallengeRepository_find(impl, rows, id) ==
    LET found == SelectById(rows, id)
    IN  IF found # <<>>
        THEN [ok |-> TRUE, panic |-> FALSE, challenge |-> found[1]]
        ELSE [ok |-> FALSE, panic |-> impl = "Memory", challenge |-> NoBody]

RECURSIVE JoinQuests(_, _)
\* user_participating_quests left outer join quests, decoded one row at a time
\* as UserWithQuestFromRow: a row without its quest has NULL columns, which do
\* not decode into String / i32
JoinQuests(rows, quest_table) ==
    IF rows = <<>> THEN [ok |-> TRUE, quests |-> <<>>]
    ELSE LET rest == JoinQuests(Tail(rows), quest_table)
             quest_id == Head(rows).target_id
         IN  IF quest_id \notin DOMAIN quest_table
             THEN [ok |-> FALSE, quests |-> <<>>]
             ELSE LET q == QuestFromRow(quest_table[quest_id])
                  IN  IF ~q.ok \/ ~rest.ok THEN [ok |-> FALSE, quests |-> <<>>]
                      ELSE [ok |-> TRUE, quests |-> <<q.row>> \o rest.quests]

(***************************************************************************)
(* UserRepository                                                          *)
(***************************************************************************)
\* bcrypt::hash: salted and one-way; bcrypt::verify recomputes it
hash(password, salt) == [alg |-> "bcrypt", salt |-> salt, of |-> password]

verify(password, hashed) == hashed.alg = "bcrypt" /\ hashed.of = password

\* the in-memory repository keeps payload.password as it is
Plain(password) == [alg |-> "plain", salt |-> 0, of |-> password]

UserFromRow(id, payload, credential) ==
    [id |-> id, username |-> payload.username, email |-> payload.email,
     password |-> credential]

\* UserRepositoryForMemory::find: store.get(&id)...unwrap()
UserRepositoryForMemory_find(store, id) ==
    IF id \in DOMAIN store
    THEN [ok |-> TRUE, panic |-> FALSE, user |-> UserEntity(store[id], <<>>, <<>>)]
    ELSE [ok |-> FALSE, panic |-> TRUE, user |-> NoBody]

\* UserRepositoryForMemory::delete: store.remove(&id).context(NotFound)?
UserRepositoryForMemory_delete(store, id) ==
    IF id \in DOMAIN store
    THEN [ok |-> TRUE, store |-> Remove(store, id)]
    ELSE [ok |-> FALSE, store |-> store]

\* one statement of UserRepositoryForDb::delete, run on the pool (autocommit):
\* 1, 2 the event tables "where use_id=$1", 3 the users row, 4 tx.commit()
UserRepositoryForDb_delete_statement(stmt, id, f, u, p, c) ==
    CASE stmt = 1 ->
           IF f \/ ~ColumnExists("user_completed_challenges", "use_id")
           THEN [ok |-> FALSE, users |-> u, participations |-> p, completions |-> c]
           ELSE [ok |-> TRUE, users |-> u, participations |-> p,
                 completions |-> DeleteSeqBy(c, id)]
      [] stmt = 2 ->
           IF f \/ ~ColumnExists("user_participating_quests", "use_id")
           THEN [ok |-> FALSE, users |-> u, participations |-> p, completions |-> c]
           ELSE [ok |-> TRUE, users |-> u, participations |-> DeleteSeqBy(p, id),
                 completions |-> c]
      [] stmt = 3 ->
           IF f
           THEN [ok |-> FALSE, users |-> u, participations |-> p, completions |-> c]
           ELSE [ok |-> TRUE, users |-> Remove(u, id), participations |-> p,
                 completions |-> c]
      [] OTHER ->
           [ok |-> ~f, users |-> u, participations |-> p, completions |-> c]

\* variant: the rows of every user are returned
get_by_user_id_unfiltered(rows, user_id) == TargetsOf(rows)

\* get_participated_quests_by_user_id / get_completed_challenges_by_user_id
get_by_user_id(rows, user_id) == TargetsOf(SelectSeqBy(rows, user_id))

(***************************************************************************)
(* Handlers of the user routes                                             *)
(***************************************************************************)
\* find_user / delete_user: the owner check before the repository is called
owner_check(id, user_id_from_token) == id = user_id_from_token

\* find_user and auth_user: Ok(user) -> (CREATED, Json(user)), Err -> NOT_FOUND
find_user_response(ok, user) ==
    IF ok THEN [status |-> CREATED, body |-> user]
    ELSE [status |-> NOT_FOUND, body |-> NoBody]

\* delete_user: map(|_| NO_CONTENT).unwrap_or(NOT_FOUND)
delete_user_response(ok) == IF ok THEN NO_CONTENT ELSE NOT_FOUND

\* variant: an empty list is reported as an error
get_events_response_empty_is_error(ids) ==
    IF ids = <<>> THEN [status |-> NOT_FOUND, body |-> NoBody]
    ELSE [status |-> OK, body |-> IdList(ids)]

\* get_participated_quests / get_completed_challenges: (OK, Json(ids))
get_events_response(ids) == [status |-> OK, body |-> IdList(ids)]

\* participate_quest / complete_challenge: Err -> BAD_REQUEST, Ok -> CREATED
save_event_response(ok) == IF ok THEN CREATED ELSE BAD_REQUEST

\* the stores as they are when the handler is entered
Stores ==
    [kind |-> "stores", users |-> users, participations |-> participations,
     completions |-> completions, quests |-> quests, challenges |-> challenges]

Enter(r) == [r EXCEPT !.runs = @ + 1, !.pre = Stores]

Call(r) == [r EXCEPT !.calls = @ + 1]

\* the id the handler looks up: the path id (find_user) or the token's (auth_user)
FindTarget(r, t) ==
    IF r.route = "find_user"
    THEN [go |-> owner_check(r.id, r.ctx), panic |-> FALSE, status |-> FORBIDDEN,
          id |-> r.id]
    ELSE IF r.cookie.kind \in {"NoHeader", "NoSessionToken"}
    THEN [go |-> FALSE, panic |-> FALSE, status |-> UNAUTHORIZED, id |-> 0]
    ELSE LET decoded_token == decode_jwt(r.cookie, SecretKey, t)
         IN  [go |-> decoded_token.ok, panic |-> ~decoded_token.ok, status |-> 0,
              id |-> decoded_token.user_id]

FindUserHandler(s) ==
    /\ reqs[s].pc = "handler"
    /\ reqs[s].route \in {"find_user", "auth_user"}
    /\ LET r == Enter(reqs[s])
           tg == FindTarget(r, now)
       IN  IF tg.panic THEN SetReq(s, Panic(r)) /\ Fault(FALSE)
           ELSE IF ~tg.go THEN SetReq(s, Reply(r, tg.status, NoBody)) /\ Fault(FALSE)
           ELSE IF backend = "Memory"
           THEN LET res == UserRepositoryForMemory_find(users, tg.id)
                    out == find_user_response(res.ok, res.user)
                IN  /\ SetReq(s, IF res.panic THEN Panic(Call(r))
                                 ELSE Reply(Call(r), out.status, out.body))
                    /\ Fault(FALSE)
           ELSE \E f \in FaultChoices :
                  /\ Fault(f)
                  /\ IF f \/ tg.id \notin DOMAIN users
                     THEN LET out == find_user_response(FALSE, NoBody)
                          IN  SetReq(s, Reply([Call(r) EXCEPT !.fault = f],
                                                out.status, out.body))
                     ELSE SetReq(s, [Call(r) EXCEPT !.pc = "find_q2",
                                       !.loc = [NoLocal EXCEPT !.id = tg.id,
                                                               !.row = users[tg.id]]])
    /\ UNCHANGED <<backend, userStores, questStores, now, issued, started, nextUserId>>

\* UserRepositoryForDb::find, second and third query: fetch_all(..).unwrap()
FindUserQuery(s) ==
    /\ reqs[s].pc \in {"find_q2", "find_q3"}
    /\ LET r == reqs[s]
       IN  \E f \in FaultChoices :
             /\ Fault(f)
             /\ IF f THEN SetReq(s, Panic([r EXCEPT !.fault = TRUE]))
                ELSE IF r.pc = "find_q2"
                THEN LET user_quest == JoinQuests(SelectSeqBy(participations, r.loc.id),
                                                  quests)
                     IN  SetReq(s, IF ~user_quest.ok THEN Panic(r)
                                   ELSE [r EXCEPT !.pc = "find_q3",
                                                  !.loc.quests = user_quest.quests])
                ELSE LET out == find_user_response(TRUE,
                                   UserEntity(r.loc.row, r.loc.quests,
                                              get_by_user_id(completions, r.loc.id)))
                     IN  SetReq(s, Reply(r, out.status, out.body))
    /\ UNCHANGED <<backend, userStores, questStores, now, issued, started, nextUserId>>

DeleteUserHandler(s) ==
    /\ reqs[s].pc = "handler"
    /\ reqs[s].route = "delete_user"
    /\ LET r == Enter(reqs[s])
       IN  IF ~owner_check(r.id, r.ctx)
           THEN SetReq(s, Reply(r, FORBIDDEN, NoBody)) /\ Fault(FALSE)
                /\ UNCHANGED users
           ELSE IF backend = "Memory"
           THEN LET res == UserRepositoryForMemory_delete(users, r.id)
                IN  /\ users' = res.store
                    /\ SetReq(s, Reply(Call(r), delete_user_response(res.ok), NoBody))
                    /\ Fault(FALSE)
           ELSE \E f \in FaultChoices :
                  /\ Fault(f)
                  /\ UNCHANGED users
                  /\ IF f
                     THEN SetReq(s, Reply([Call(r) EXCEPT !.fault = TRUE],
                                            delete_user_response(FALSE), NoBody))
                     ELSE SetReq(s, [Call(r) EXCEPT !.pc = "delete_tx",
                                       !.loc = [NoLocal EXCEPT !.id = r.id, !.stmt = 1]])
    /\ UNCHANGED <<backend, participations, completions, questStores, now, issued,
                   started, nextUserId>>

DeleteUserStatement(s) ==
    /\ reqs[s].pc = "delete_tx"
    /\ LET r == reqs[s]
       IN  \E f \in FaultChoices :
             LET res == UserRepositoryForDb_delete_statement(
                            r.loc.stmt, r.loc.id, f, users, participations, completions)
                 rf == [r EXCEPT !.fault = @ \/ f]
             IN  /\ Fault(f)
                 /\ users' = res.users
                 /\ participations' = res.participations
                 /\ completions' = res.completions
                 /\ IF ~res.ok
                    THEN SetReq(s, Reply(rf, delete_user_response(FALSE), NoBody))
                    ELSE IF r.loc.stmt >= 4
                    THEN SetReq(s, Reply(rf, delete_user_response(TRUE), NoBody))
                    ELSE SetReq(s, [rf EXCEPT !.loc.stmt = @ + 1])
    /\ UNCHANGED <<backend, questStores, now, issued, started, nextUserId>>

(***************************************************************************)
(* Event routes                                                            *)
(***************************************************************************)
\* what the client of a save request that was answered 201 remembers
Saved(r) == [route |-> r.route, user_id |-> r.uid, target_id |-> r.id]

\* participate_quest / complete_challenge: one insert of (payload.user_id, path id)
SaveEventHandler(s) ==
    /\ reqs[s].pc = "handler"
    /\ reqs[s].route \in {"participate_quest", "complete_challenge"}
    /\ LET r == Call(Enter(reqs[s]))
           row == [user_id |-> r.uid, target_id |-> r.id]
       IN  \E f \in FaultChoices :
             /\ Fault(f)
             /\ SetReq(s, Reply([r EXCEPT !.fault = f], save_event_response(~f), NoBody))
             /\ posted' = IF save_event_response(~f) = CREATED
                          THEN [posted EXCEPT !.events = Append(@, Saved(r))]
                          ELSE posted
             /\ IF f THEN UNCHANGED <<participations, completions>>
                ELSE IF r.route = "participate_quest"
                THEN /\ participations' = Append(participations, row)
                     /\ UNCHANGED completions
                ELSE /\ completions' = Append(completions, row)
                     /\ UNCHANGED participations
    /\ UNCHANGED <<backend, users, quests, challenges, nextQuestId, nextChallengeId,
                   now, issued, started, nextUserId>>

\* get_participated_quests / get_completed_challenges
GetEventsHandler(s) ==
    /\ reqs[s].pc = "handler"
    /\ reqs[s].route \in {"get_participated_quests", "get_completed_challenges"}
    /\ LET r == Enter(reqs[s])
           decoded_token == decode_jwt(r.cookie, SecretKey, now)
           rows == IF r.route = "get_participated_quests" THEN participations
                   ELSE completions
       IN  IF r.cookie.kind \in {"NoHeader", "NoSessionToken"}
           THEN SetReq(s, Reply(r, UNAUTHORIZED, NoBody)) /\ Fault(FALSE)
           ELSE IF ~decoded_token.ok THEN SetReq(s, Panic(r)) /\ Fault(FALSE)
           ELSE \E f \in FaultChoices :
                  /\ Fault(f)
                  /\ IF f THEN SetReq(s, Panic([Call(r) EXCEPT !.fault = TRUE]))
                     ELSE LET out == get_events_response(
                                        get_by_user_id(rows, decoded_token.user_id))
                          IN  SetReq(s, Reply(Call(r), out.status, out.body))
    /\ UNCHANGED <<backend, userStores, questStores, now, issued, started, nextUserId>>

(***************************************************************************)
(* register_user                                                           *)
(***************************************************************************)
\* Cookie::build("session_token", &token).path("/").expires(..).secure(true)
\* .http_only(true).finish()
SessionCookie(token, exp) ==
    [kind |-> "SetCookie", name |-> "session_token", value |-> token,
     expires |-> exp, path |-> "/", secure |-> TRUE, http_only |-> TRUE]

\* variant: the cookie is given twice the token's lifetime
session_response_cookie_outlives_token(user, t, secret_key) ==
    LET token == IssueToken(user.id, t, secret_key)
        exp == t + JWT_HOURS + JWT_HOURS
    IN  [status |-> CREATED, token |-> token,
         set_cookie |-> SessionCookie(token, exp), body |-> user]

\* register_user / login_user after the repository returned Ok(user):
\* (CREATED, [(SET_COOKIE, cookie)], Json(user))
session_response(user, t, secret_key) ==
    LET token == IssueToken(user.id, t, secret_key)
        exp == t + JWT_HOURS
    IN  [status |-> CREATED, token |-> token,
         set_cookie |-> SessionCookie(token, exp), body |-> user]

\* the handler returns the session response
ReplySession(r, out, t) ==
    [Reply(r, out.status, out.body) EXCEPT !.set_cookie = out.set_cookie, !.at = t]

RegisterHandler(s) ==
    /\ reqs[s].pc = "handler"
    /\ reqs[s].route = "register_user"
    /\ LET r == Call(Enter(reqs[s]))
           id == nextUserId
           credential == IF backend = "Memory" THEN Plain(r.payload.password)
                         ELSE hash(r.payload.password, id)
           row == UserFromRow(id, r.payload, credential)
           out == session_response(UserEntity(row, <<>>, <<>>), now, SecretKey)
       IN  \E f \in (IF backend = "Memory" THEN {FALSE} ELSE FaultChoices) :
             /\ Fault(f)
             /\ IF f
                THEN /\ SetReq(s, Reply([r EXCEPT !.fault = TRUE], NOT_FOUND, NoBody))
                     /\ UNCHANGED <<users, issued, nextUserId>>
                ELSE /\ users' = Put(users, id, row)
                     /\ nextUserId' = nextUserId + 1
                     /\ issued' = issued \cup {out.token}
                     /\ SetReq(s, ReplySession(r, out, now))
    /\ UNCHANGED <<backend, participations, completions, questStores, now, started>>

(***************************************************************************)
(* login_user                                                              *)
(***************************************************************************)
\* select * from users where email=$1
SelectByEmail(store, email) == {id \in DOMAIN store : store[id].email = email}

\* UserRepositoryForMemory::login: store.values().find(|user| user.email ==
\* payload.email && user.password == payload.password)
UserRepositoryForMemory_login(store, payload) ==
    {id \in DOMAIN store : /\ store[id].email = payload.email
                           /\ store[id].password = Plain(payload.password)}

\* login_user: .or(Err(StatusCode::NOT_FOUND))?
login_error_response == [status |-> NOT_FOUND, body |-> NoBody]

\* login_user: the in-memory lookup, or the first select of
\* UserRepositoryForDb::login followed by bcrypt::verify; fetch_one takes
\* whichever matching row the database returns first
LoginHandler(s) ==
    /\ reqs[s].pc = "handler"
    /\ reqs[s].route = "login_user"
    /\ LET r == Call(Enter(reqs[s]))
           err == login_error_response
       IN  IF backend = "Memory"
           THEN LET found == UserRepositoryForMemory_login(users, r.payload)
                IN  /\ Fault(FALSE)
                    /\ IF found = {}
                       THEN /\ SetReq(s, Reply(r, err.status, err.body))
                            /\ UNCHANGED issued
                       ELSE \E id \in found :
                              LET out == session_response(
                                             UserEntity(users[id], <<>>, <<>>),
                                             now, SecretKey)
                              IN  /\ issued' = issued \cup {out.token}
                                  /\ SetReq(s, ReplySession(r, out, now))
           ELSE \E f \in FaultChoices :
                  LET found == SelectByEmail(users, r.payload.email)
                      rf == [r EXCEPT !.fault = f]
                  IN  /\ Fault(f)
                      /\ UNCHANGED issued
                      /\ IF f \/ found = {}
                         THEN SetReq(s, Reply(rf, err.status, err.body))
                         ELSE \E id \in found :
                                SetReq(s, IF ~verify(r.payload.password,
                                                     users[id].password)
                                          THEN Reply(rf, err.status, err.body)
                                          ELSE [rf EXCEPT !.pc = "login_q2",
                                                  !.loc = [NoLocal EXCEPT
                                                             !.id = id,
                                                             !.row = users[id]]])
    /\ UNCHANGED <<backend, userStores, questStores, now, started, nextUserId>>

\* UserRepositoryForDb::login, second and third query: fetch_all(..).unwrap(),
\* then the session response
LoginQuery(s) ==
    /\ reqs[s].pc \in {"login_q2", "login_q3"}
    /\ LET r == reqs[s]
       IN  \E f \in FaultChoices :
             /\ Fault(f)
             /\ IF f
                THEN SetReq(s, Panic([r EXCEPT !.fault = TRUE])) /\ UNCHANGED issued
                ELSE IF r.pc = "login_q2"
                THEN LET user_quest == JoinQuests(SelectSeqBy(participations, r.loc.id),
                                                  quests)
                     IN  /\ SetReq(s, IF ~user_quest.ok THEN Panic(r)
                                      ELSE [r EXCEPT !.pc = "login_q3",
                                                     !.loc.quests = user_quest.quests])
                         /\ UNCHANGED issued
                ELSE LET out == session_response(
                                    UserEntity(r.loc.row, r.loc.quests,
                                               get_by_user_id(completions, r.loc.id)),
                                    now, SecretKey)
                     IN  /\ issued' = issued \cup {out.token}
                         /\ SetReq(s, ReplySession(r, out, now))
    /\ UNCHANGED <<backend, userStores, questStores, now, started, nextUserId>>

(***************************************************************************)
(* Handlers of the quest and challenge routes (no auth guard)              *)
(***************************************************************************)
\* create_quest / create_challenge: Err -> NOT_FOUND, Ok -> (CREATED, Json)
create_response(ok, entity) ==
    IF ok THEN [status |-> CREATED, body |-> entity]
    ELSE [status |-> NOT_FOUND, body |-> NoBody]

\* find_quest / find_challenge: Err -> NOT_FOUND, Ok -> (OK, Json)
find_response(ok, entity) ==
    IF ok THEN [status |-> OK, body |-> entity]
    ELSE [status |-> NOT_FOUND, body |-> NoBody]

\* find_quest maps Err to a response; update_quest unwraps the Result
QuestErr(r) ==
    IF r.route = "update_quest" THEN Panic(r)
    ELSE LET out == find_response(FALSE, NoBody)
         IN  Reply(r, out.status, out.body)

Forget(known, id) == IF id \in DOMAIN known THEN Remove(known, id) ELSE known

\* what the clients know after a create, an update or a delete of quest id
\* was acknowledged
Create(known, id, payload) ==
    [known EXCEPT !.quests = Put(@, id, payload), !.written = Put(@, id, payload)]

Update(known, id, payload) ==
    [known EXCEPT !.quests = Forget(@, id),
                  !.written = IF id \in DOMAIN @
                              THEN Put(@, id, [f \in DOMAIN @[id] |->
                                                IF f \in QuestFields /\ payload[f].some
                                                THEN payload[f].v ELSE @[id][f]])
                              ELSE @]

Delete(known, id) ==
    [known EXCEPT !.quests = Forget(@, id), !.written = Forget(@, id)]

CreateQuestHandler(s) ==
    /\ reqs[s].pc = "handler"
    /\ reqs[s].route = "create_quest"
    /\ LET r == Call(Enter(reqs[s]))
           id == nextQuestId
       IN  IF backend = "Memory"
           THEN LET res == QuestRepositoryForMemory_create(quests, id, r.payload)
                    out == create_response(TRUE, res.quest)
                IN  /\ quests' = res.store
                    /\ nextQuestId' = nextQuestId + 1
                    /\ posted' = Create(posted, id, r.payload)
                    /\ SetReq(s, Reply(r, out.status, out.body))
                    /\ Fault(FALSE)
           ELSE \E f \in FaultChoices :
                  /\ Fault(f)
                  /\ IF f
                     THEN LET out == create_response(FALSE, NoBody)
                          IN  /\ SetReq(s, Reply([r EXCEPT !.fault = TRUE],
                                                 out.status, out.body))
                              /\ UNCHANGED <<quests, nextQuestId, posted>>
                     ELSE LET row == QuestFromRow(QuestRowForDb(id, r.payload))
                              out == create_response(row.ok,
                                                     QuestEntity_new(id, row.row))
                          IN  /\ quests' = Put(quests, id, QuestRowForDb(id, r.payload))
                              /\ nextQuestId' = nextQuestId + 1
                              /\ posted' = IF row.ok
                                           THEN Create(posted, id, r.payload)
                                           ELSE posted
                              /\ SetReq(s, Reply(r, out.status, out.body))
    /\ UNCHANGED <<backend, userStores, challenges, nextChallengeId, now, issued,
                   started, nextUserId>>

\* find_quest and update_quest: the in-memory operation, or the first select of
\* QuestRepositoryForDb::find (update calls self.find first)
QuestHandler(s) ==
    /\ reqs[s].pc = "handler"
    /\ reqs[s].route \in {"find_quest", "update_quest"}
    /\ LET r == Call(Enter(reqs[s]))
       IN  IF backend = "Memory" /\ r.route = "find_quest"
           THEN LET res == QuestRepositoryForMemory_find(quests, r.id)
                    out == find_response(res.ok, res.quest)
                IN  /\ SetReq(s, IF res.panic THEN Panic(r)
                                 ELSE Reply(r, out.status, out.body))
                    /\ Fault(FALSE)
                    /\ UNCHANGED <<quests, posted>>
           ELSE IF backend = "Memory"
           THEN LET res == QuestRepositoryForMemory_update(quests, r.id, r.payload)
                IN  /\ quests' = res.store
                    /\ posted' = IF res.ok
                                 THEN Update(posted, r.id, r.payload)
                                 ELSE posted
                    /\ SetReq(s, IF res.ok THEN Reply(r, OK, res.quest) ELSE Panic(r))
                    /\ Fault(FALSE)
           ELSE \E f \in FaultChoices :
                  LET row == IF r.id \in DOMAIN quests THEN QuestFromRow(quests[r.id])
                             ELSE [ok |-> FALSE, row |-> NoBody]
                      rf == [r EXCEPT !.fault = f]
                  IN  /\ Fault(f)
                      /\ UNCHANGED <<quests, posted>>
                      /\ SetReq(s, IF f \/ ~row.ok THEN QuestErr(rf)
                                   ELSE [rf EXCEPT !.pc = "quest_q2",
                                                   !.loc.row = row.row])
    /\ UNCHANGED <<backend, userStores, challenges, nextQuestId, nextChallengeId,
                   now, issued, started, nextUserId>>

\* QuestRepositoryForDb::find, second select: the challenges of the quest
QuestQuery(s) ==
    /\ reqs[s].pc = "quest_q2"
    /\ LET r == reqs[s]
       IN  \E f \in FaultChoices :
             LET rf == [r EXCEPT !.fault = @ \/ f]
                 found == SelectByQuestId(challenges, r.id)
                 out == find_response(TRUE, QuestEntity(r.loc.row, found))
             IN  /\ Fault(f)
                 /\ SetReq(s, IF f THEN QuestErr(rf)
                              ELSE IF r.route = "find_quest"
                              THEN Reply(rf, out.status, out.body)
                              ELSE [rf EXCEPT !.pc = "quest_upd",
                                              !.loc.challenges = found])
    /\ UNCHANGED <<backend, userStores, questStores, now, issued, started, nextUserId>>

\* QuestRepositoryForDb::update: update quests set .. where id=$7 returning *
QuestUpdateStatement(s) ==
    /\ reqs[s].pc = "quest_upd"
    /\ LET r == reqs[s]
           old_quest == r.loc.row
           new_row == QuestRowForDb(r.id, UpdatedQuest(old_quest, r.payload))
           row == QuestFromRow(new_row)
       IN  \E f \in FaultChoices :
             /\ Fault(f)
             /\ IF f \/ r.id \notin DOMAIN quests
                THEN /\ SetReq(s, Panic([r EXCEPT !.fault = @ \/ f]))
                     /\ UNCHANGED <<quests, posted>>
                ELSE /\ quests' = Put(quests, r.id, new_row)
                     /\ posted' = Update(posted, r.id, r.payload)
                     /\ SetReq(s, IF ~row.ok THEN Panic(r)
                                  ELSE Reply(r, OK, QuestEntity(row.row,
                                                               r.loc.challenges)))
    /\ UNCHANGED <<backend, userStores, challenges, nextQuestId, nextChallengeId,
                   now, issued, started, nextUserId>>

CreateChallengeHandler(s) ==
    /\ reqs[s].pc = "handler"
    /\ reqs[s].route = "create_challenge"
    /\ LET r == Call(Enter(reqs[s]))
           id == nextChallengeId
           challenge == Challenge(id, r.payload)
       IN  \E f \in (IF backend = "Memory" THEN {FALSE} ELSE FaultChoices) :
             LET out == create_response(~f, IF f THEN NoBody ELSE challenge)
             IN  /\ Fault(f)
                 /\ SetReq(s, Reply([r EXCEPT !.fault = f], out.status, out.body))
                 /\ IF f THEN UNCHANGED <<challenges, nextChallengeId, posted>>
                    ELSE /\ challenges' = Append(challenges, challenge)
                         /\ nextChallengeId' = nextChallengeId + 1
                         /\ posted' = [posted EXCEPT
                                         !.challenges = Put(@, id, r.payload)]
    /\ UNCHANGED <<backend, userStores, quests, nextQuestId, now, issued, started,
                   nextUserId>>

FindChallengeHandler(s) ==
    /\ reqs[s].pc = "handler"
    /\ reqs[s].route = "find_challenge"
    /\ LET r == Call(Enter(reqs[s]))
           res == ChallengeRepository_find(backend, challenges, r.id)
       IN  \E f \in (IF backend = "Memory" THEN {FALSE} ELSE FaultChoices) :
             LET out == find_response(res.ok /\ ~f, IF f THEN NoBody ELSE res.challenge)
             IN  /\ Fault(f)
                 /\ SetReq(s, IF res.panic THEN Panic(r)
                              ELSE Reply([r EXCEPT !.fault = f], out.status, out.body))
    /\ UNCHANGED <<backend, userStores, questStores, now, issued, started, nextUserId>>

(***************************************************************************)
(* delete_quest, all_quests, find_challenge_by_quest_id                    *)
(***************************************************************************)
\* QuestRepositoryForMemory::delete: store.remove(&id).context(NotFound)?
QuestRepositoryForMemory_delete(store, id) ==
    IF id \in DOMAIN store
    THEN [ok |-> TRUE, store |-> Remove(store, id)]
    ELSE [ok |-> FALSE, store |-> store]

RECURSIVE DeleteByQuestId(_, _)
\* delete from challenges where quest_id=$1
DeleteByQuestId(rows, quest_id) ==
    IF rows = <<>> THEN <<>>
    ELSE IF Head(rows).quest_id = quest_id
         THEN DeleteByQuestId(Tail(rows), quest_id)
         ELSE <<Head(rows)>> \o DeleteByQuestId(Tail(rows), quest_id)

\* delete_quest: map(|_| NO_CONTENT).unwrap_or(NOT_FOUND)
delete_quest_response(ok) == IF ok THEN NO_CONTENT ELSE NOT_FOUND

\* the created challenges the client still knows after those of a quest went
ForgetChallenges(known, rows, quest_id) ==
    [id \in {k \in DOMAIN known :
               \A i \in 1..Len(rows) : rows[i].id = k => rows[i].quest_id # quest_id}
       |-> known[id]]

(***************************************************************************)
(* QuestRepositoryForMemory under concurrent requests: the store is an     *)
(* Arc<RwLock<QuestDatas>>; a request holds the guard from write_store_ref *)
(* / read_store_ref until the repository function returns.  The positions  *)
(* mem_get and mem_insert are inside update (write guard held), mem_find   *)
(* is inside find (read guard held), mem_wait is blocked in write()/read().*)
(***************************************************************************)
Writers == {t \in Slots : reqs[t].pc \in {"mem_get", "mem_insert"}}

Readers == {t \in Slots : reqs[t].pc = "mem_find"}

\* a write guard handed out although the lock is held
write_store_ref_unguarded(writers, readers) == TRUE

\* self.store.write(): returns once there is no writer and no reader
write_store_ref(writers, readers) == writers = {} /\ readers = {}

\* self.store.read(): returns once there is no writer
read_store_ref(writers) == writers = {}

\* the request in slot s asks for a guard: it gets it (pc becomes at) or
\* blocks until the lock is free
Acquire(s, free, at) ==
    /\ reqs[s].pc \in {"handler", "mem_wait"}
    /\ IF free THEN SetReq(s, [Call(Enter(reqs[s])) EXCEPT !.pc = at])
       ELSE /\ reqs[s].pc = "handler"
            /\ SetReq(s, [reqs[s] EXCEPT !.pc = "mem_wait", !.waited = TRUE])
    /\ UNCHANGED <<backend, userStores, questStores, now, issued, started, faults,
                   nextUserId>>

\* update: let mut store = self.write_store_ref();
MemoryUpdateLock(s) ==
    /\ backend = "Memory"
    /\ reqs[s].route = "update_quest"
    /\ Acquire(s, write_store_ref(Writers, Readers), "mem_get")

\* update: let quest = store.get(&id).context(NotFound)?; the handler
\* unwraps the Err
MemoryUpdateGet(s) ==
    /\ reqs[s].pc = "mem_get"
    /\ LET r == reqs[s]
       IN  SetReq(s, IF r.id \in DOMAIN quests
                     THEN [r EXCEPT !.pc = "mem_insert", !.loc.row = quests[r.id]]
                     ELSE Panic(r))
    /\ UNCHANGED <<backend, userStores, questStores, now, issued, started, faults,
                   nextUserId>>

\* update: store.insert(id, quest.clone()); Ok(quest)
MemoryUpdateInsert(s) ==
    /\ reqs[s].pc = "mem_insert"
    /\ LET r == reqs[s]
           quest == QuestEntity(UpdatedQuest(r.loc.row, r.payload),
                                r.loc.row.challenges)
       IN  /\ quests' = Put(quests, r.id, quest)
           /\ posted' = Update(posted, r.id, r.payload)
           /\ SetReq(s, Reply(r, OK, quest))
    /\ UNCHANGED <<backend, userStores, challenges, nextQuestId, nextChallengeId,
                   now, issued, started, faults, nextUserId>>

\* find: let store = self.read_store_ref();
MemoryFindLock(s) ==
    /\ backend = "Memory"
    /\ reqs[s].route = "find_quest"
    /\ Acquire(s, read_store_ref(Writers), "mem_find")

\* find: store.get(&id).map(|quest| quest.clone()).unwrap()
MemoryFindGet(s) ==
    /\ reqs[s].pc = "mem_find"
    /\ LET r == reqs[s]
           res == QuestRepositoryForMemory_find(quests, r.id)
           out == find_response(res.ok, res.quest)
       IN  SetReq(s, IF res.panic THEN Panic(r) ELSE Reply(r, out.status, out.body))
    /\ UNCHANGED <<backend, userStores, questStores, now, issued, started, faults,
                   nextUserId>>

\* create: write_store_ref, insert and return, when the lock is free
MemoryCreate(s) ==
    /\ backend = "Memory"
    /\ write_store_ref(Writers, Readers)
    /\ CreateQuestHandler(s)

\* delete_quest: the in-memory removal, or the first statement of
\* QuestRepositoryForDb::delete (delete from quests where id=$1)
DeleteQuestHandler(s) ==
    /\ reqs[s].pc = "handler"
    /\ reqs[s].route = "delete_quest"
    /\ LET r == Call(Enter(reqs[s]))
       IN  IF backend = "Memory"
           THEN LET res == QuestRepositoryForMemory_delete(quests, r.id)
                IN  /\ quests' = res.store
                    /\ posted' = Delete(posted, r.id)
                    /\ SetReq(s, Reply(r, delete_quest_response(res.ok), NoBody))
                    /\ Fault(FALSE)
           ELSE \E f \in FaultChoices :
                  /\ Fault(f)
                  /\ IF f
                     THEN /\ SetReq(s, Reply([r EXCEPT !.fault = TRUE],
                                            delete_quest_response(FALSE), NoBody))
                          /\ UNCHANGED <<quests, posted>>
                     ELSE /\ quests' = IF r.id \in DOMAIN quests
                                       THEN Remove(quests, r.id) ELSE quests
                          /\ posted' = Delete(posted, r.id)
                          /\ SetReq(s, [r EXCEPT !.pc = "quest_del2"])
    /\ UNCHANGED <<backend, userStores, challenges, nextQuestId, nextChallengeId,
                   now, issued, started, nextUserId>>

\* QuestRepositoryForDb::delete, second statement:
\* delete from challenges where quest_id=$1
DeleteQuestStatement(s) ==
    /\ reqs[s].pc = "quest_del2"
    /\ LET r == reqs[s]
       IN  \E f \in FaultChoices :
             /\ Fault(f)
             /\ IF f
                THEN /\ SetReq(s, Reply([r EXCEPT !.fault = TRUE],
                                       delete_quest_response(FALSE), NoBody))
                     /\ UNCHANGED <<challenges, posted>>
                ELSE /\ challenges' = DeleteByQuestId(challenges, r.id)
                     /\ posted' = [posted EXCEPT
                                     !.challenges = ForgetChallenges(@, challenges, r.id)]
                     /\ SetReq(s, Reply(r, delete_quest_response(TRUE), NoBody))
    /\ UNCHANGED <<backend, userStores, quests, nextQuestId, nextChallengeId,
                   now, issued, started, nextUserId>>

\* the orders in which a HashMap's values, or the rows of a select without
\* order by, may come
Orders(S) ==
    {o \in [1..Cardinality(S) -> S] :
       \A i, j \in 1..Cardinality(S) : o[i] = o[j] => i = j}

QuestList(list) == [kind |-> "quests", list |-> list]

ChallengeList(list) == [kind |-> "challenges", list |-> list]

\* the quest rows decoded as QuestFromRow, each made a QuestEntity::new
QuestEntities(quest_table, order) ==
    [i \in 1..Len(order) |->
       LET q == QuestFromRow(quest_table[order[i]])
       IN  [ok |-> q.ok, quest |-> QuestEntity_new(order[i], q.row)]]

RECURSIVE PushChallenges(_, _)
\* for challenge in challenge_rows: the first quest with q.id ==
\* challenge.quest_id gets quest.challenges.push(challenge)
PushChallenges(quest_list, challenge_rows) ==
    IF challenge_rows = <<>> THEN quest_list
    ELSE LET challenge == Head(challenge_rows)
             hits == {i \in 1..Len(quest_list) : quest_list[i].id = challenge.quest_id}
             first == CHOOSE i \in hits : \A j \in hits : i <= j
         IN  PushChallenges(
               IF hits = {} THEN quest_list
               ELSE [quest_list EXCEPT ![first].challenges = Append(@, challenge)],
               Tail(challenge_rows))

\* all_quests: Vec::from_iter(store.values().cloned()) in memory, or the
\* first select of QuestRepositoryForDb::all; the handler unwraps the Result
AllQuestsHandler(s) ==
    /\ reqs[s].pc = "handler"
    /\ reqs[s].route = "all_quests"
    /\ LET r == Call(Enter(reqs[s]))
       IN  IF backend = "Memory"
           THEN /\ Fault(FALSE)
                /\ \E order \in Orders(DOMAIN quests) :
                     SetReq(s, Reply(r, OK, QuestList([i \in 1..Len(order) |->
                                                         quests[order[i]]])))
           ELSE \E f \in FaultChoices :
                  /\ Fault(f)
                  /\ IF f THEN SetReq(s, Panic([r EXCEPT !.fault = TRUE]))
                     ELSE \E order \in Orders(DOMAIN quests) :
                            LET rows == QuestEntities(quests, order)
                            IN  SetReq(s, IF \E i \in 1..Len(rows) : ~rows[i].ok
                                          THEN Panic(r)
                                          ELSE [r EXCEPT !.pc = "all_q2",
                                                  !.loc.quests =
                                                    [i \in 1..Len(rows) |->
                                                       rows[i].quest]])
    /\ UNCHANGED <<backend, userStores, questStores, now, issued, started, nextUserId>>

\* QuestRepositoryForDb::all, second select and the grouping loop
AllQuestsQuery(s) ==
    /\ reqs[s].pc = "all_q2"
    /\ LET r == reqs[s]
       IN  \E f \in FaultChoices :
             /\ Fault(f)
             /\ SetReq(s, IF f THEN Panic([r EXCEPT !.fault = TRUE])
                          ELSE Reply(r, OK, QuestList(PushChallenges(r.loc.quests,
                                                                     challenges))))
    /\ UNCHANGED <<backend, userStores, questStores, now, issued, started, nextUserId>>

\* ChallengeRepository::find_by_quest_id, the lists it can return: the
\* in-memory store is a HashMap and `store.values().filter(..)` walks it in
\* hash order; `select * from challenges where quest_id = $1` has no ORDER BY
find_by_quest_id(rows, quest_id) ==
    LET found == SelectByQuestId(rows, quest_id)
    IN  Orders({found[i] : i \in 1..Len(found)})

\* a find_by_quest_id that takes the rows it returns out of the table
FindChallengesHandler_draining(s) ==
    /\ reqs[s].pc = "handler"
    /\ reqs[s].route = "find_challenge_by_quest_id"
    /\ LET r == Call(Enter(reqs[s]))
       IN  \E list \in find_by_quest_id(challenges, r.id) :
             /\ Fault(FALSE)
             /\ challenges' = DeleteByQuestId(challenges, r.id)
             /\ SetReq(s, Reply(r, OK, ChallengeList(list)))
    /\ UNCHANGED <<backend, userStores, quests, nextQuestId, nextChallengeId,
                   posted, now, issued, started, nextUserId>>

\* find_challenge_by_quest_id: Err -> NOT_FOUND, Ok -> (OK, Json(challenges))
FindChallengesHandler(s) ==
    /\ reqs[s].pc = "handler"
    /\ reqs[s].route = "find_challenge_by_quest_id"
    /\ LET r == Call(Enter(reqs[s]))
       IN  \E f \in (IF backend = "Memory" THEN {FALSE} ELSE FaultChoices) :
           \E list \in (IF f THEN {<<>>} ELSE find_by_quest_id(challenges, r.id)) :
             LET out == find_response(~f, IF f THEN NoBody ELSE ChallengeList(list))
             IN  /\ Fault(f)
                 /\ SetReq(s, Reply([r EXCEPT !.fault = f], out.status, out.body))
    /\ UNCHANGED <<backend, userStores, questStores, now, issued, started, nextUserId>>

(***************************************************************************)
(* Clients and the clock                                                   *)
(***************************************************************************)
\* what a client can put in the Cookie header: nothing, other cookies, garbage,
\* a token it signed itself with another key, or a token the server issued
Cookies ==
    {NoHeader, NoSessionToken, Malformed}
      \cup {create_jwt(u, now, now + JWT_HOURS, OtherKey) : u \in UserIds}
      \cup issued

RegisterPayloads ==
    {[kind |-> "register", username |-> "Ann", email |-> "ann@x.io", password |-> "pw"],
     [kind |-> "register", username |-> "Bob", email |-> "bob@x.io", password |-> "qw"]}

FreeSlot(s) ==
    /\ ~InFlight(reqs[s])
    /\ \A t \in Slots : t < s => InFlight(reqs[t])

AllRoutes ==
    ProtectedRoutes
      \cup {"register_user", "login_user", "create_quest", "find_quest",
            "update_quest", "create_challenge", "find_challenge",
            "delete_quest", "all_quests", "find_challenge_by_quest_id"}

Pending(routes) == Cardinality({t \in Slots : InFlight(reqs[t]) /\ reqs[t].route \in routes})

New(route, cookie, id, uid, payload) ==
    [Idle EXCEPT !.route = route, !.cookie = cookie, !.id = id, !.uid = uid,
                 !.payload = payload,
                 !.pc = IF route \in ProtectedRoutes THEN "guard" ELSE "handler"]

\* a client may send a request: a slot is free, at most `limit` requests are
\* in flight and fewer than `budget` have been sent
CanBegin(s, limit, budget) ==
    /\ FreeSlot(s)
    /\ Pending(AllRoutes) < limit
    /\ started < budget

\* the routes that find one entity by its id
FindRoutes == {"find_quest", "find_challenge", "find_user"}

\* request r repeats the client's previous call: the same find, for the
\* same id with the same cookie, straight after the previous answer
Repeats(prev, r) ==
    /\ r.route \in FindRoutes
    /\ prev.pc = "done"
    /\ prev.runs > 0
    /\ ~prev.fault
    /\ prev.route = r.route
    /\ prev.id = r.id
    /\ prev.cookie = r.cookie

Prior(prev) ==
    [again |-> TRUE, status |-> prev.status, body |-> prev.body,
     panicked |-> prev.panicked, pre |-> prev.pre]

Send(s, r) ==
    /\ started' = started + 1
    /\ SetReq(s, IF Repeats(last, r) THEN [r EXCEPT !.prior = Prior(last)] ELSE r)
    /\ UNCHANGED <<backend, userStores, questStores, now, issued, faults, nextUserId>>

\* GET /users/:id, DELETE /users/:id
StartUserRoute(s, limit, budget, cookies) ==
    /\ CanBegin(s, limit, budget)
    /\ \E route \in {"find_user", "delete_user"}, id \in UserIds, cookie \in cookies :
         Send(s, New(route, cookie, id, 0, NoPayload))

\* GET /user/auth
StartAuthUser(s, limit, budget, cookies) ==
    /\ CanBegin(s, limit, budget)
    /\ \E cookie \in cookies : Send(s, New("auth_user", cookie, 0, 0, NoPayload))

\* GET /me/participated_quests, /me/completed_challenges
StartMeRoute(s, limit, budget, cookies) ==
    /\ CanBegin(s, limit, budget)
    /\ \E route \in {"get_participated_quests", "get_completed_challenges"},
          cookie \in cookies :
         Send(s, New(route, cookie, 0, 0, NoPayload))

\* POST /quests/:id/participate, /challenges/:id/complete with {"user_id": ..}
StartEventRoute(s, limit, budget, cookies) ==
    /\ CanBegin(s, limit, budget)
    /\ Len(participations) + Len(completions)
         + Pending({"participate_quest", "complete_challenge"}) < MaxEvents
    /\ \E route \in {"participate_quest", "complete_challenge"}, id \in TargetIds,
          uid \in UserIds, cookie \in cookies :
         Send(s, New(route, cookie, id, uid, NoPayload))

\* POST /register
StartRegister(s, limit, budget) ==
    /\ CanBegin(s, limit, budget)
    /\ nextUserId + Pending({"register_user"}) <= MaxUsers
    /\ \E payload \in RegisterPayloads :
         Send(s, New("register_user", NoHeader, 0, 0, payload))

\* POST /login bodies: each registrable email with each password in use
LoginPayloads ==
    {[kind |-> "login", email |-> p.email, password |-> q.password] :
       p \in RegisterPayloads, q \in RegisterPayloads}

\* POST /login
StartLogin(s, limit, budget) ==
    /\ CanBegin(s, limit, budget)
    /\ \E payload \in LoginPayloads :
         Send(s, New("login_user", NoHeader, 0, 0, payload))

QuestIds == 1..MaxQuests
ChallengeIds == 1..MaxChallenges

CreateQuestPayloads ==
    {[kind |-> "create_quest", title |-> "Cave", description |-> "dark", price |-> 0,
      difficulty |-> Easy, num_participate |-> 0, num_clear |-> 0],
     [kind |-> "create_quest", title |-> "Peak", description |-> "high", price |-> 100,
      difficulty |-> Hard, num_participate |-> 3, num_clear |-> 1]}

NoChange ==
    [kind |-> "update_quest", title |-> None, description |-> None, price |-> None,
     difficulty |-> None, num_participate |-> None, num_clear |-> None]

\* PATCH bodies: nothing, one field, some fields, every field
UpdateQuestPayloads ==
    {NoChange,
     [NoChange EXCEPT !.title = Some("Lake")],
     [NoChange EXCEPT !.price = Some(50), !.difficulty = Some(Normal),
                      !.num_clear = Some(2)],
     [kind |-> "update_quest", title |-> Some("Reef"), description |-> Some("deep"),
      price |-> Some(7), difficulty |-> Some(Hard), num_participate |-> Some(9),
      num_clear |-> Some(4)]}

CreateChallengePayloads ==
    {[kind |-> "create_challenge", name |-> "Gate", description |-> "open it",
      quest_id |-> q, latitude |-> 35, longitude |-> 139] : q \in QuestIds}

\* POST /quests
StartCreateQuest(s, limit, budget, most) ==
    /\ CanBegin(s, limit, budget)
    /\ nextQuestId + Pending({"create_quest"}) <= most
    /\ \E payload \in CreateQuestPayloads :
         Send(s, New("create_quest", NoHeader, 0, 0, payload))

\* GET /quests/:id
StartFindQuest(s, limit, budget) ==
    /\ CanBegin(s, limit, budget)
    /\ \E id \in QuestIds : Send(s, New("find_quest", NoHeader, id, 0, NoPayload))

\* PATCH /quests/:id
StartUpdateQuest(s, limit, budget) ==
    /\ CanBegin(s, limit, budget)
    /\ \E id \in QuestIds, payload \in UpdateQuestPayloads :
         Send(s, New("update_quest", NoHeader, id, 0, payload))

\* POST /challenges
StartCreateChallenge(s, limit, budget) ==
    /\ CanBegin(s, limit, budget)
    /\ nextChallengeId + Pending({"create_challenge"}) <= MaxChallenges
    /\ \E payload \in CreateChallengePayloads :
         Send(s, New("create_challenge", NoHeader, 0, 0, payload))

\* GET /challenges/:id
StartFindChallenge(s, limit, budget) ==
    /\ CanBegin(s, limit, budget)
    /\ \E id \in ChallengeIds : Send(s, New("find_challenge", NoHeader, id, 0, NoPayload))

\* DELETE /quests/:id
StartDeleteQuest(s, limit, budget) ==
    /\ CanBegin(s, limit, budget)
    /\ \E id \in QuestIds : Send(s, New("delete_quest", NoHeader, id, 0, NoPayload))

\* GET /quests
StartAllQuests(s, limit, budget) ==
    /\ CanBegin(s, limit, budget)
    /\ Send(s, New("all_quests", NoHeader, 0, 0, NoPayload))

\* GET /challenges?quest_id=..
StartFindChallenges(s, limit, budget) ==
    /\ CanBegin(s, limit, budget)
    /\ \E id \in QuestIds :
         Send(s, New("find_challenge_by_quest_id", NoHeader, id, 0, NoPayload))

\* PATCH /quests/:id with a one-field body
\* two PATCH bodies that set disjoint fields
DisjointUpdates ==
    {[NoChange EXCEPT !.title = Some("Lake")],
     [NoChange EXCEPT !.price = Some(50), !.difficulty = Some(Normal),
                      !.num_clear = Some(2)]}

\* clients that update and read the same few quests at the same time
StartRaceUpdate(s, limit, budget) ==
    /\ CanBegin(s, limit, budget)
    /\ \E id \in TargetIds, payload \in DisjointUpdates :
         Send(s, New("update_quest", NoHeader, id, 0, payload))

StartRaceFind(s, limit, budget) ==
    /\ CanBegin(s, limit, budget)
    /\ \E id \in TargetIds :
         Send(s, New("find_quest", NoHeader, id, 0, NoPayload))

StartRenameQuest(s, limit, budget) ==
    /\ CanBegin(s, limit, budget)
    /\ \E id \in QuestIds :
         Send(s, New("update_quest", NoHeader, id, 0,
                     [NoChange EXCEPT !.title = Some("Lake")]))

Tick ==
    /\ now + ClockStep <= MaxNow
    /\ now' = now + ClockStep
    /\ UNCHANGED <<backend, userStores, questStores, issued, reqs, last, started,
                   faults, nextUserId>>

Init ==
    /\ backend \in {"Db", "Memory"}
    /\ users = EmptyMap
    /\ participations = <<>>
    /\ completions = <<>>
    /\ quests = EmptyMap
    /\ challenges = <<>>
    /\ posted = [quests |-> EmptyMap, challenges |-> EmptyMap, events |-> <<>>,
                 written |-> EmptyMap]
    /\ now = 0
    /\ issued = {}
    /\ reqs = [s \in Slots |-> Idle]
    /\ last = Idle
    /\ started = 0
    /\ faults = 0
    /\ nextUserId = 1
    /\ nextQuestId = 1
    /\ nextChallengeId = 1

(***************************************************************************)
(* The auth guard in front of every protected route, any cookie            *)
(***************************************************************************)
NextGuard ==
    \/ Tick
    \/ \E s \in Slots :
         \/ StartRegister(s, 1, GuardRequests)
         \/ StartUserRoute(s, 1, GuardRequests, Cookies)
         \/ StartAuthUser(s, 1, GuardRequests, Cookies)
         \/ StartMeRoute(s, 1, GuardRequests, Cookies)
         \/ StartEventRoute(s, 1, GuardRequests, Cookies)
         \/ Guard(s)
         \/ FindUserHandler(s)
         \/ FindUserQuery(s)
         \/ DeleteUserHandler(s)
         \/ DeleteUserStatement(s)
         \/ SaveEventHandler(s)
         \/ GetEventsHandler(s)
         \/ RegisterHandler(s)

SpecGuard == Init /\ [][NextGuard]_vars

(***************************************************************************)
(* Users and their event records: requests that carry issued tokens        *)
(***************************************************************************)
NextUsers ==
    \E s \in Slots :
      \/ StartRegister(s, 1, UserRequests)
      \/ StartCreateQuest(s, 1, UserRequests, MaxTargets)
      \/ StartUserRoute(s, 1, UserRequests, issued)
      \/ StartAuthUser(s, 1, UserRequests, issued)
      \/ StartMeRoute(s, 1, UserRequests, issued)
      \/ StartEventRoute(s, 1, UserRequests, issued)
      \/ Guard(s)
      \/ FindUserHandler(s)
      \/ FindUserQuery(s)
      \/ DeleteUserHandler(s)
      \/ DeleteUserStatement(s)
      \/ SaveEventHandler(s)
      \/ GetEventsHandler(s)
      \/ RegisterHandler(s)
      \/ CreateQuestHandler(s)

SpecUsers == Init /\ [][NextUsers]_vars

(***************************************************************************)
(* Event records and the /me routes                                        *)
(***************************************************************************)
NextEvents ==
    \E s \in Slots :
      \/ StartRegister(s, 1, EventRequests)
      \/ StartMeRoute(s, 1, EventRequests, issued)
      \/ StartEventRoute(s, 1, EventRequests, issued)
      \/ Guard(s)
      \/ SaveEventHandler(s)
      \/ GetEventsHandler(s)
      \/ RegisterHandler(s)

SpecEvents == Init /\ [][NextEvents]_vars

(***************************************************************************)
(* Accounts: register and login                                            *)
(***************************************************************************)
NextAccounts ==
    \/ Tick
    \/ \E s \in Slots :
         \/ StartRegister(s, 1, AccountRequests)
         \/ StartLogin(s, 1, AccountRequests)
         \/ RegisterHandler(s)
         \/ LoginHandler(s)
         \/ LoginQuery(s)

SpecAccounts == Init /\ [][NextAccounts]_vars

(***************************************************************************)
(* Quests and challenges                                                   *)
(***************************************************************************)
NextQuests ==
    \E s \in Slots :
      \/ StartCreateQuest(s, 1, QuestRequests, MaxQuests)
      \/ StartFindQuest(s, 1, QuestRequests)
      \/ StartUpdateQuest(s, 1, QuestRequests)
      \/ StartCreateChallenge(s, 1, QuestRequests)
      \/ StartFindChallenge(s, 1, QuestRequests)
      \/ CreateQuestHandler(s)
      \/ QuestHandler(s)
      \/ QuestQuery(s)
      \/ QuestUpdateStatement(s)
      \/ CreateChallengeHandler(s)
      \/ FindChallengeHandler(s)

SpecQuests == Init /\ [][NextQuests]_vars

(***************************************************************************)
(* The catalog: quests with their challenges, listed and deleted           *)
(***************************************************************************)
NextCatalog ==
    \E s \in Slots :
      \/ StartCreateQuest(s, 1, CatalogRequests, MaxQuests)
      \/ StartCreateChallenge(s, 1, CatalogRequests)
      \/ StartFindQuest(s, 1, CatalogRequests)
      \/ StartRenameQuest(s, 1, CatalogRequests)
      \/ StartDeleteQuest(s, 1, CatalogRequests)
      \/ StartAllQuests(s, 1, CatalogRequests)
      \/ StartFindChallenges(s, 1, CatalogRequests)
      \/ CreateQuestHandler(s)
      \/ CreateChallengeHandler(s)
      \/ QuestHandler(s)
      \/ QuestQuery(s)
      \/ QuestUpdateStatement(s)
      \/ DeleteQuestHandler(s)
      \/ DeleteQuestStatement(s)
      \/ AllQuestsHandler(s)
      \/ AllQuestsQuery(s)
      \/ FindChallengesHandler(s)

SpecCatalog == Init /\ [][NextCatalog]_vars

\* concurrent requests on the quests of the Postgres repository: up to
\* MaxInFlight requests are served at once, their statements interleave
InitDurable == Init /\ backend = "Db"

NextDurable ==
    \E s \in Slots :
      \/ StartCreateQuest(s, MaxInFlight, RaceRequests, 1)
      \/ StartRaceUpdate(s, MaxInFlight, RaceRequests)
      \/ CreateQuestHandler(s)
      \/ QuestHandler(s)
      \/ QuestQuery(s)
      \/ QuestUpdateStatement(s)

SpecDurable == InitDurable /\ [][NextDurable]_vars

\* concurrent requests on the quests of the in-memory repository
InitMemory == Init /\ backend = "Memory"

NextMemory ==
    \E s \in Slots :
      \/ StartCreateQuest(s, MaxInFlight, RaceRequests, 1)
      \/ StartRaceUpdate(s, MaxInFlight, RaceRequests)
      \/ StartRaceFind(s, MaxInFlight, RaceRequests)
      \/ MemoryCreate(s)
      \/ MemoryUpdateLock(s)
      \/ MemoryUpdateGet(s)
      \/ MemoryUpdateInsert(s)
      \/ MemoryFindLock(s)
      \/ MemoryFindGet(s)

SpecMemory == InitMemory /\ [][NextMemory]_vars

(***************************************************************************)
(* Properties                                                              *)
(***************************************************************************)
\* the guard of request r saw a session_token that does not verify
RejectedToken(r) ==
    /\ r.cookie.kind \in {"Malformed", "Jwt"}
    /\ ~decode_jwt(r.cookie, SecretKey, r.at).ok

\* the guard of request r saw a session_token that verifies
ValidToken(r) ==
    /\ r.cookie.kind = "Jwt"
    /\ decode_jwt(r.cookie, SecretKey, r.at).ok

\* C1: a protected request whose session_token is invalid (other key,
\* malformed) or expired ends with the response 401: it is not aborted
\* without a response, and its handler has not run.
C1_InvalidTokenIs401 ==
    (last.route \in ProtectedRoutes /\ RejectedToken(last))
      => (Responded(last) /\ last.status = UNAUTHORIZED /\ last.runs = 0)

\* C2: a protected request with no Cookie header, or a Cookie header without
\* session_token, is answered 401; its handler is never entered and no
\* repository operation is called for it.
C2_NoCookieRejected ==
    /\ (last.route \in ProtectedRoutes
          /\ last.cookie.kind \in {"NoHeader", "NoSessionToken"})
         => (Responded(last) /\ last.status = UNAUTHORIZED
               /\ last.runs = 0 /\ last.calls = 0)
    /\ \A s \in Slots :
         (reqs[s].route \in ProtectedRoutes
            /\ reqs[s].cookie.kind \in {"NoHeader", "NoSessionToken"})
           => (reqs[s].pc = "guard" /\ reqs[s].runs = 0 /\ reqs[s].calls = 0)

C2_Witness ==
    /\ last.route = "delete_user"
    /\ last.cookie.kind = "NoSessionToken"
    /\ last.id \in DOMAIN users
    /\ last.status = UNAUTHORIZED

\* C3: behind the guard a handler runs only for a request whose token
\* verified, with exactly the token's user_id bound; such a request enters
\* its handler exactly once and its response is the handler's response.
C3_ValidTokenRunsHandlerOnce ==
    /\ \A s \in Slots :
         (reqs[s].route \in ProtectedRoutes /\ reqs[s].pc # "guard")
           => (ValidToken(reqs[s]) /\ reqs[s].ctx = reqs[s].cookie.user_id
                 /\ reqs[s].runs <= 1)
    /\ (last.route \in ProtectedRoutes /\ last.runs > 0) => ValidToken(last)
    /\ (last.route \in ProtectedRoutes /\ ValidToken(last))
         => /\ last.ctx = last.cookie.user_id
            /\ last.runs = 1
            /\ Responded(last)
                 => (last.status = last.hres.status /\ last.body = last.hres.body)

C3_Witness ==
    /\ last.route = "find_user"
    /\ ValidToken(last)
    /\ last.ctx = last.cookie.user_id
    /\ last.runs = 1
    /\ last.status = CREATED
    /\ last.body.kind = "user"
    /\ last.body.id = last.ctx

\* the records of table `rows` that belong to user id
RecordsOf(rows, id) == SelectSeqBy(rows, id)

\* request r used a token the server issued for a user that is now gone
TokenOfDeletedUser(r) ==
    /\ ValidToken(r)
    /\ r.cookie \in issued
    /\ r.cookie.user_id \notin DOMAIN users

\* C4: once a user is deleted, GET /user/auth and GET /users/:id with that
\* user's still-valid token are answered 401.
C4_DeletedUserIs401 ==
    (/\ last.route \in {"auth_user", "find_user"}
     /\ last.pc = "done"
     /\ ~last.fault
     /\ TokenOfDeletedUser(last)
     /\ last.route = "find_user" => last.id = last.ctx)
      => (Responded(last) /\ last.status = UNAUTHORIZED)

\* the owner check: another user's id is answered 403 without a repository
\* call and with every store as it was
C5_NotOwnerForbidden ==
    (/\ last.route \in {"find_user", "delete_user"}
     /\ last.runs = 1
     /\ last.id # last.ctx)
      => (/\ Responded(last)
          /\ last.status = FORBIDDEN
          /\ last.calls = 0
          /\ Stores = last.pre)

\* the owner acts on an existing user and storage does not fail
OwnerRequest(r, route) ==
    /\ r.route = route
    /\ r.pc = "done"
    /\ r.runs = 1
    /\ r.id = r.ctx
    /\ r.id \in DOMAIN r.pre.users
    /\ ~r.fault

C5_OwnerFinds ==
    OwnerRequest(last, "find_user")
      => (/\ Responded(last)
          /\ last.body.kind = "user"
          /\ last.body.id = last.id
          /\ last.body.username = last.pre.users[last.id].username
          /\ last.body.email = last.pre.users[last.id].email)

C5_OwnerDeletes ==
    OwnerRequest(last, "delete_user")
      => (Responded(last) /\ last.id \notin DOMAIN users)

\* C5: find_user and delete_user act only for the owner: another id is
\* answered 403 with no repository call and no change; for the owner of an
\* existing user find_user returns that user and delete_user removes it.
C5_OwnerOnly == C5_NotOwnerForbidden /\ C5_OwnerFinds /\ C5_OwnerDeletes

\* C6: after UserRepository.delete(id) on an existing user with
\* participation records, no participation or completion record of that
\* user remains and a subsequent find(id) returns NotFound (404).
C6_DeleteCascades ==
    /\ (/\ last.route = "delete_user"
        /\ last.pc = "done"
        /\ last.calls = 1
        /\ ~last.fault
        /\ last.id \in DOMAIN last.pre.users
        /\ RecordsOf(last.pre.participations, last.id) # <<>>)
         => (/\ RecordsOf(participations, last.id) = <<>>
             /\ RecordsOf(completions, last.id) = <<>>
             /\ last.id \notin DOMAIN users)
    /\ (/\ last.route = "find_user"
        /\ last.pc = "done"
        /\ last.calls = 1
        /\ ~last.fault
        /\ last.id \notin DOMAIN last.pre.users)
         => (Responded(last) /\ last.status = NOT_FOUND)

\* the three stores with user id and all its records deleted
AllDeleted(pre, id) ==
    [users |-> IF id \in DOMAIN pre.users THEN Remove(pre.users, id) ELSE pre.users,
     participations |-> DeleteSeqBy(pre.participations, id),
     completions |-> DeleteSeqBy(pre.completions, id)]

UserStoresOf(st) ==
    [users |-> st.users, participations |-> st.participations,
     completions |-> st.completions]

\* since r called delete, all three deletions have been applied, or none
TogetherOrNotAtAll(r) ==
    (r.route = "delete_user" /\ r.calls = 1)
      => \/ UserStoresOf(Stores) = UserStoresOf(r.pre)
         \/ UserStoresOf(Stores) = AllDeleted(r.pre, r.id)

\* C7: user deletion is atomic: during and after a delete call the
\* completion records, participation records and user row of that user are
\* either all still there or all gone.
C7_DeleteAtomic ==
    /\ TogetherOrNotAtAll(last)
    /\ \A s \in Slots : TogetherOrNotAtAll(reqs[s])

\* the quest as find reads it from the store
StoredQuest(store, id) ==
    IF backend = "Memory" THEN store[id] ELSE QuestFromRow(store[id]).row

\* the challenges find returns with quest id
StoredChallenges(store, id) ==
    IF backend = "Memory" THEN store[id].challenges
    ELSE SelectByQuestId(challenges, id)

\* C8: update(id, payload) on an existing quest sets exactly the fields
\* that are Some in the payload and leaves the None fields, the id, the
\* quest's challenges and every other quest as they were; the returned
\* entity equals the stored one.
C8_UpdateFrame ==
    (/\ last.route = "update_quest"
     /\ last.pc = "done"
     /\ ~last.fault
     /\ last.id \in DOMAIN last.pre.quests)
      => /\ Responded(last)
         /\ last.status = OK
         /\ DOMAIN quests = DOMAIN last.pre.quests
         /\ \A f \in QuestFields :
              StoredQuest(quests, last.id)[f] =
                IF last.payload[f].some THEN last.payload[f].v
                ELSE StoredQuest(last.pre.quests, last.id)[f]
         /\ StoredQuest(quests, last.id).id = last.id
         /\ \A other \in DOMAIN quests \ {last.id} :
              quests[other] = last.pre.quests[other]
         /\ challenges = last.pre.challenges
         /\ StoredChallenges(quests, last.id) = StoredChallenges(last.pre.quests, last.id)
         /\ \A f \in QuestFields \cup {"id"} :
              last.body[f] = StoredQuest(quests, last.id)[f]
         /\ last.body.challenges = StoredChallenges(quests, last.id)

C8_Witness ==
    /\ last.route = "update_quest"
    /\ Responded(last)
    /\ last.payload = [NoChange EXCEPT !.title = Some("Lake")]
    /\ Cardinality(DOMAIN quests) = MaxQuests
    /\ last.id \in DOMAIN last.pre.quests
    /\ last.pre.quests[last.id].title = "Peak"
    /\ StoredQuest(quests, last.id).title = "Lake"
    /\ StoredQuest(quests, last.id).price = 100
    /\ last.body.challenges # <<>>

ChallengeFields == {"name", "description", "quest_id", "latitude", "longitude"}

\* C9: create followed by find of the returned id, with no mutation of the
\* entity in between, returns the fields of the posted payload, for quests
\* and for challenges.
C9_CreateFindRoundTrip ==
    /\ (/\ last.route = "find_quest"
        /\ last.pc = "done"
        /\ ~last.fault
        /\ last.id \in DOMAIN posted.quests)
         => (/\ Responded(last)
             /\ last.status = OK
             /\ \A f \in QuestFields : last.body[f] = posted.quests[last.id][f])
    /\ (/\ last.route = "find_challenge"
        /\ last.pc = "done"
        /\ ~last.fault
        /\ last.id \in DOMAIN posted.challenges)
         => (/\ Responded(last)
             /\ last.status = OK
             /\ \A f \in ChallengeFields :
                  last.body[f] = posted.challenges[last.id][f])

C9_Witness ==
    /\ backend = "Db"
    /\ last.route = "find_quest"
    /\ Responded(last)
    /\ last.status = OK
    /\ last.id \in DOMAIN posted.quests
    /\ quests[last.id].difficulty = "Hard"
    /\ last.body.difficulty = Hard
    /\ last.body.num_participate = 3
    /\ DOMAIN posted.challenges # {}

\* the event table a /me route reads
EventRows(route, st) ==
    IF route = "get_participated_quests" THEN st.participations ELSE st.completions

\* C10: for an authenticated user with no participation (completion)
\* events, get_participated_quests (get_completed_challenges) answers 200
\* with the empty list.
C10_EmptyListIsOk ==
    (/\ last.route \in {"get_participated_quests", "get_completed_challenges"}
     /\ last.pc = "done"
     /\ last.runs = 1
     /\ ~last.fault
     /\ RecordsOf(EventRows(last.route, last.pre), last.ctx) = <<>>)
      => (/\ Responded(last)
          /\ last.status = OK
          /\ last.body = IdList(<<>>))

C10_Witness ==
    /\ last.route = "get_participated_quests"
    /\ last.ctx \in DOMAIN users
    /\ participations # <<>>
    /\ RecordsOf(participations, last.ctx) = <<>>
    /\ last.status = OK
    /\ last.body = IdList(<<>>)

\* the entity a find route looks up is in the store st
Stored(route, st, id) ==
    CASE route = "find_user" -> id \in DOMAIN st.users
      [] route = "find_quest" -> id \in DOMAIN st.quests
      [] OTHER -> SelectById(st.challenges, id) # <<>>

\* C11: find(id) for an id that is not in the store ends with the response
\* 404, for users, quests and challenges on every implementation: the
\* request is not aborted and no entity is returned.
C11_FindAbsentIs404 ==
    (/\ last.route \in {"find_user", "find_quest", "find_challenge"}
     /\ last.pc = "done"
     /\ last.calls = 1
     /\ ~last.fault
     /\ ~Stored(last.route, last.pre, last.id))
      => (Responded(last) /\ last.status = NOT_FOUND /\ last.body = NoBody)

\* some stored user has the payload's email and a credential the payload's
\* password verifies against
CredentialsMatch(store, payload) ==
    \E id \in DOMAIN store :
      /\ store[id].email = payload.email
      /\ \/ verify(payload.password, store[id].password)
         \/ store[id].password = Plain(payload.password)

\* C12: a login whose email matches no user and a login with a wrong
\* password both end with the generic 401, with no body and no cookie; a
\* login succeeds only when the email exists and the password verifies.
C12_LoginFailureIsUnauthorized ==
    (last.route = "login_user" /\ last.pc = "done" /\ ~last.fault)
      => /\ (Responded(last) /\ last.status = CREATED)
              => CredentialsMatch(last.pre.users, last.payload)
         /\ ~CredentialsMatch(last.pre.users, last.payload)
              => (/\ Responded(last)
                  /\ last.status = UNAUTHORIZED
                  /\ last.body = NoBody
                  /\ last.set_cookie = NoHeader)

\* C13: no two stored users share an id or an email, and a register whose
\* email is already stored fails and leaves the users as they were.
C13_UniqueIdentityKeys ==
    /\ \A a, b \in DOMAIN users :
         (users[a].id = users[b].id \/ users[a].email = users[b].email) => a = b
    /\ (/\ last.route = "register_user"
        /\ last.pc = "done"
        /\ SelectByEmail(last.pre.users, last.payload.email) # {})
         => (Responded(last) /\ last.status # CREATED /\ users = last.pre.users)

\* the user a session response is about: the created one, or the one found
SessionUser(r) ==
    IF r.route = "register_user"
    THEN r.body.id \notin DOMAIN r.pre.users
           /\ r.body.username = r.payload.username
           /\ r.body.email = r.payload.email
    ELSE r.body.id \in DOMAIN r.pre.users
           /\ r.body.username = r.pre.users[r.body.id].username
           /\ r.body.email = r.payload.email
           /\ r.body.email = r.pre.users[r.body.id].email

\* C14: a successful register_user or login_user answers 201 with the user
\* (username and email, no password) and a Set-Cookie session_token whose
\* user_id is that user's id, whose exp is 8 hours after its iat and whose
\* cookie expiry is the token's exp; a failed one sets no cookie.
C14_SessionIssued ==
    (last.route \in {"register_user", "login_user"} /\ last.pc = "done")
      => IF Responded(last) /\ last.status \notin {NOT_FOUND, UNAUTHORIZED}
         THEN /\ last.status = CREATED
              /\ last.body.kind = "user"
              /\ "password" \notin DOMAIN last.body
              /\ SessionUser(last)
              /\ last.body.id \in DOMAIN users
              /\ last.set_cookie.kind = "SetCookie"
              /\ last.set_cookie.name = "session_token"
              /\ last.set_cookie.value \in issued
              /\ last.set_cookie.value.user_id = last.body.id
              /\ last.set_cookie.value.iat = last.at
              /\ last.set_cookie.value.exp = last.set_cookie.value.iat + 8
              /\ last.set_cookie.expires = last.set_cookie.value.exp
              /\ decode_jwt(last.set_cookie.value, SecretKey, last.at).ok
         ELSE last.set_cookie = NoHeader

C14_Witness ==
    /\ backend = "Db"
    /\ last.route = "login_user"
    /\ last.status = CREATED
    /\ last.body.kind = "user"
    /\ last.body.username = "Bob"
    /\ Cardinality(DOMAIN users) = MaxUsers
    /\ last.set_cookie.kind = "SetCookie"
    /\ last.set_cookie.value.user_id = last.body.id
    /\ last.set_cookie.value.iat = ClockStep
    /\ last.set_cookie.expires = ClockStep + 8

\* the record participate_quest / complete_challenge inserts for request r
EventOf(r) == [user_id |-> r.uid, target_id |-> r.id]

\* C15: participate_quest appends a participation record only when both
\* the user and the quest exist; if either is missing the answer is 404 and
\* no record is added, and a failed insert is one failure with the records
\* as they were.
C15_ParticipateChecksBoth ==
    (last.route = "participate_quest" /\ last.pc = "done" /\ last.runs = 1)
      => /\ Responded(last)
         /\ IF /\ last.uid \in DOMAIN last.pre.users
               /\ last.id \in DOMAIN last.pre.quests
            THEN \/ /\ last.status = CREATED
                    /\ participations = Append(last.pre.participations, EventOf(last))
                 \/ /\ last.status # CREATED
                    /\ participations = last.pre.participations
            ELSE /\ last.status = NOT_FOUND
                 /\ participations = last.pre.participations

\* the save route whose records a /me route lists
SaveRouteOf(route) ==
    IF route = "get_participated_quests" THEN "participate_quest"
    ELSE "complete_challenge"

\* the target ids of the saves answered 201 on `route` for user uid, in order
SavedFor(log, route, uid) ==
    LET Mine(e) == e.route = route /\ e.user_id = uid
        mine == SelectSeq(log, Mine)
    IN  [i \in 1..Len(mine) |-> mine[i].target_id]

\* C16: with no user deleted, get_participated_quests and
\* get_completed_challenges return one entry per save answered 201 for the
\* authenticated user, with the saved target ids and none saved for another
\* user; a participate / complete request whose insert succeeds answers 201.
C16_EventLogExact ==
    /\ (/\ last.route \in {"get_participated_quests", "get_completed_challenges"}
        /\ last.pc = "done"
        /\ last.runs = 1
        /\ ~last.fault)
         => (/\ Responded(last)
             /\ last.status = OK
             /\ last.body = IdList(SavedFor(posted.events, SaveRouteOf(last.route),
                                            last.ctx)))
    /\ (/\ last.route \in {"participate_quest", "complete_challenge"}
        /\ last.pc = "done"
        /\ last.runs = 1
        /\ ~last.fault)
         => (/\ Responded(last)
             /\ last.status = CREATED
             /\ posted.events # <<>>
             /\ posted.events[Len(posted.events)] = Saved(last))

C16_Witness ==
    /\ last.route = "get_participated_quests"
    /\ Len(participations) = MaxEvents
    /\ \E i, j \in 1..Len(participations) :
         /\ participations[i].user_id = last.ctx
         /\ participations[j].user_id # last.ctx
    /\ last.status = OK
    /\ Len(last.body.ids) = 1

\* C17: after a delete_quest that was answered 204 the quest is absent and
\* no challenge with that quest_id remains, on every implementation.
C17_QuestDeleteCascades ==
    (/\ last.route = "delete_quest"
     /\ Responded(last)
     /\ last.status = NO_CONTENT)
      => (/\ last.id \notin DOMAIN quests
          /\ SelectByQuestId(challenges, last.id) = <<>>)

\* the entity a mutating request addresses was not in the store at its start
AbsentTarget(r) ==
    \/ r.route \in {"update_quest", "delete_quest"} /\ r.id \notin DOMAIN r.pre.quests
    \/ r.route = "delete_user" /\ r.id = r.ctx /\ r.id \notin DOMAIN r.pre.users

\* C18: update_quest, delete_quest and delete_user addressed to an id that
\* is not in the store are answered 404 (not 200 or 204, and not aborted)
\* and leave every store as it was.
C18_MutateAbsentIs404 ==
    (/\ last.route \in {"update_quest", "delete_quest", "delete_user"}
     /\ last.pc = "done"
     /\ last.calls = 1
     /\ ~last.fault
     /\ AbsentTarget(last))
      => (/\ Responded(last)
          /\ last.status = NOT_FOUND
          /\ Stores = last.pre)

\* the elements of a list, as a set
Elements(list) == {list[i] : i \in 1..Len(list)}

\* the entity lists exactly the challenges of table `rows` with its quest_id
OwnChallenges(entity, rows) ==
    /\ Len(entity.challenges) = Len(SelectByQuestId(rows, entity.id))
    /\ Elements(entity.challenges) = Elements(SelectByQuestId(rows, entity.id))

\* C20: find_quest returns the quest with exactly the challenges whose
\* quest_id is its id, and all_quests returns every stored quest once, each
\* with exactly the challenges whose quest_id is that quest's id.
C20_QuestsAggregateChallenges ==
    /\ (/\ last.route = "find_quest"
        /\ Responded(last)
        /\ last.status = OK)
         => (/\ last.body.id = last.id
             /\ OwnChallenges(last.body, last.pre.challenges))
    /\ (/\ last.route = "all_quests"
        /\ last.pc = "done"
        /\ ~last.fault)
         => (/\ Responded(last)
             /\ last.status = OK
             /\ Len(last.body.list) = Cardinality(DOMAIN last.pre.quests)
             /\ {q.id : q \in Elements(last.body.list)} = DOMAIN last.pre.quests
             /\ \A q \in Elements(last.body.list) :
                  OwnChallenges(q, last.pre.challenges))

\* the routes that answer with a created or found entity, or with a list
CreateRoutes == {"create_quest", "create_challenge", "register_user", "login_user"}

ReadRoutes ==
    {"find_quest", "all_quests", "find_challenge", "find_user", "auth_user",
     "get_participated_quests", "get_completed_challenges"}

\* request r asked to delete a quest that existed, or its own existing user
DeletesExisting(r) ==
    \/ r.route = "delete_quest" /\ r.calls = 1 /\ r.id \in DOMAIN r.pre.quests
    \/ /\ r.route = "delete_user"
       /\ r.runs = 1
       /\ r.id = r.ctx
       /\ r.id \in DOMAIN r.pre.users

\* C19: a request that succeeds is answered with the documented status:
\* 201 when create, register or login return the entity, 200 when a find
\* or list route returns its entity or list, and 204 when an existing quest,
\* or an existing user by its owner, is deleted.
C19_SuccessStatus ==
    /\ (last.route \in CreateRoutes /\ Responded(last) /\ last.body # NoBody)
         => last.status = CREATED
    /\ (last.route \in ReadRoutes /\ Responded(last) /\ last.body # NoBody)
         => last.status = OK
    /\ (last.pc = "done" /\ ~last.fault /\ DeletesExisting(last))
         => (Responded(last) /\ last.status = NO_CONTENT)

\* C21: in every reachable state every stored challenge's quest_id is the id
\* of a stored quest.
C21_ReferentialIntegrity ==
    \A i \in 1..Len(challenges) : challenges[i].quest_id \in DOMAIN quests

\* the routes whose handlers map every repository error with
\* `.or(Err(StatusCode::NOT_FOUND))`
CreatingRoutes ==
    {"create_quest", "create_challenge", "register_user", "login_user"}

\* C22: a storage fault during create_quest, create_challenge, register_user
\* or login_user is never answered 404 Not Found.
C22_FaultIsNot404 ==
    (/\ last.route \in CreatingRoutes
     /\ last.pc = "done"
     /\ last.fault)
      => (Responded(last) /\ last.status # NOT_FOUND)

\* C23: find_by_quest_id(q) answers 200 with all and only the challenges
\* whose quest_id is q, in the order in which they were created, and with the
\* empty list when there are none.
C23_ChallengesInCreationOrder ==
    (/\ last.route = "find_challenge_by_quest_id"
     /\ last.pc = "done"
     /\ ~last.fault)
      => (/\ Responded(last)
          /\ last.status = OK
          /\ last.body = ChallengeList(SelectByQuestId(last.pre.challenges,
                                                       last.id)))

\* the passwords clients submit to register_user
SubmittedPasswords == {p.password : p \in RegisterPayloads}

\* C24: no stored user credential is the plaintext of a submitted password;
\* every stored credential is a one-way hash that login checks with verify.
C24_OnlyHashStored ==
    \A id \in DOMAIN users :
      /\ \A password \in SubmittedPasswords : users[id].password # Plain(password)
      /\ users[id].password.alg = "bcrypt"

\* the operations that only read: the GET routes and login
Reads == ReadRoutes \cup {"find_challenge_by_quest_id", "login_user"}

\* no request is being served
Quiet == \A s \in Slots : reqs[s].pc = "idle"

WritesKept ==
    \A id \in DOMAIN posted.written \cap DOMAIN quests :
      \A f \in QuestFields : StoredQuest(quests, id)[f] = posted.written[id][f]

StoredEvent ==
    IF last.route = "participate_quest" THEN participations[Len(participations)]
    ELSE completions[Len(completions)]

\* C27: every record created through participate_quest or complete_challenge
\* has the user_id of the session token that authenticated the request.
C27_EventOwnedByCaller ==
    (/\ last.route \in {"participate_quest", "complete_challenge"}
     /\ Responded(last)
     /\ last.status = CREATED
     /\ Quiet)
      => StoredEvent.user_id = last.ctx

\* C28: in the durable repository, once the update requests on a quest have
\* been answered, the stored quest has every value a successful update set,
\* the latest one for each field, under every interleaving of the requests'
\* find and update statements.
C28_NoLostUpdate ==
    (backend = "Db" /\ Quiet) => WritesKept

\* the in-memory store that corresponds to a quests store: each quest as
\* QuestRepositoryForMemory keeps it, with the challenges it was created with
AsMemory(store) ==
    [id \in DOMAIN store |->
       IF backend = "Memory" THEN store[id]
       ELSE QuestEntity(QuestFromRow(store[id]).row, <<>>)]

\* what a client observes of a request that has ended
Outcome(r) == [panicked |-> r.panicked, status |-> r.status, body |-> r.body]

\* the outcome of request r when QuestRepositoryForMemory serves it
InMemoryOutcome(r) ==
    LET store == AsMemory(r.pre.quests)
    IN  CASE r.route = "find_quest" ->
               LET res == QuestRepositoryForMemory_find(store, r.id)
                   out == find_response(res.ok, res.quest)
               IN  IF res.panic THEN Outcome(Panic(Idle))
                   ELSE Outcome(Reply(Idle, out.status, out.body))
          [] r.route = "update_quest" ->
               LET res == QuestRepositoryForMemory_update(store, r.id, r.payload)
               IN  IF res.ok THEN Outcome(Reply(Idle, OK, res.quest))
                   ELSE Outcome(Panic(Idle))
          [] OTHER ->
               LET res == QuestRepositoryForMemory_delete(store, r.id)
               IN  Outcome(Reply(Idle, delete_quest_response(res.ok), NoBody))

\* C29: a find, update or delete of a quest has the same outcome (success or
\* failure kind, and result) on the durable repository as on the in-memory
\* one, from corresponding stores, also for absent ids and for quests with
\* challenges.
C29_SameOutcomeAsInMemory ==
    (/\ last.route \in {"find_quest", "update_quest", "delete_quest"}
     /\ last.pc = "done"
     /\ last.runs > 0
     /\ ~last.fault)
      => Outcome(last) = InMemoryOutcome(last)

\* the user-owned stores
UserOwned == <<users, participations, completions>>

====
